---- MODULE Spec2Model ----
(***************************************************************************)
(* Monthly bonus schedule generator (src/app.py).                          *)
(*                                                                         *)
(* One Streamlit script run with an uploaded file is modelled as a         *)
(* sequential process: process_close_export, the empty check, the totals,  *)
(* the display frame, then the three exports.  The pure helpers            *)
(* (format_currency, the display-name extractors) are operators, and each  *)
(* has a small specification of its own that applies it to drawn inputs.   *)
(*                                                                         *)
(* Money is an integer number of thousandths of a dollar (float64          *)
(* arithmetic on the values drawn here is exact, so sums and differences   *)
(* are integer sums and differences).  Text is a sequence of one-character *)
(* strings.                                                                *)
(***************************************************************************)
EXTENDS Integers, Sequences, FiniteSets, TLC

VARIABLES
    df,               \* the uploaded export: a sequence of raw rows
    month_ending,     \* sidebar date input
    prior_adjustment, \* sidebar number input
    mls_cost,         \* sidebar number input
    pc,               \* position of the script run
    month_start,      \* locals of process_close_export
    month_end,
    df_filtered,      \* index labels of df kept by the period filter
    processed_df,     \* return value of process_close_export
    defined,          \* names bound by the main block so far
    subtotal,
    total,
    display_df,       \* the formatted copy
    rendered,         \* renderers invoked so far
    pdf_data,         \* return value of export_to_pdf
    excel_data,       \* the worksheet export_to_excel wrote
    csv,              \* display_df.to_csv(index=False)
    team_members,     \* argument of the signature block of export_to_pdf
    sig_data,         \* its table rows
    value,            \* argument of a format_currency call
    formatted,        \* its result
    display_name,     \* argument of the display-name extractors
    county,
    grantor

vars == <<df, month_ending, prior_adjustment, mls_cost, pc, month_start,
          month_end, df_filtered, processed_df, defined, subtotal, total,
          display_df, rendered, pdf_data, excel_data, csv, team_members,
          sig_data, value, formatted, display_name, county, grantor>>

runVars == <<df, month_ending, prior_adjustment, mls_cost, pc, month_start,
             month_end, df_filtered, processed_df, defined, subtotal, total,
             display_df, rendered, pdf_data, excel_data, csv>>

currencyVars == <<value, formatted>>

nameVars == <<display_name, county, grantor>>

sigVars == <<team_members, sig_data>>

exportVars == <<excel_data, csv>>

----------------------------------------------------------------------------
(* Bounds of the model. *)

MaxRows == 2

MaxNameLen == 5

MaxTeam == 4

(* n dollars in model units (thousandths of a dollar). *)
Dollars(n) == n * 1000

----------------------------------------------------------------------------
(* Calendar. *)

IsLeap(y) == (y % 4 = 0 /\ y % 100 # 0) \/ y % 400 = 0

DaysInMonth(y, m) ==
    IF m \in {4, 6, 9, 11} THEN 30
    ELSE IF m = 2 THEN (IF IsLeap(y) THEN 29 ELSE 28)
    ELSE 31

ValidDate(y, m, d) == m \in 1..12 /\ d >= 1 /\ d <= DaysInMonth(y, m)

NaT == [nat |-> TRUE, y |-> 0, m |-> 0, d |-> 0, s |-> 0]

(* pd.Timestamp(date): midnight of that date. *)
Timestamp(date) == [nat |-> FALSE, y |-> date.y, m |-> date.m, d |-> date.d, s |-> 0]

(* Position of a timestamp on the time line, as (day, second of the day): *)
(* ordered like the nanosecond count pandas compares.                      *)
DayNumber(t) == ((t.y * 12 + (t.m - 1)) * 31) + (t.d - 1)

Before(t, u) ==
    \/ DayNumber(t) < DayNumber(u)
    \/ DayNumber(t) = DayNumber(u) /\ t.s < u.s

(* Comparisons of a column value with a Timestamp: False for NaT. *)
Ge(t, u) == ~t.nat /\ ~u.nat /\ ~Before(t, u)

LtOrEqual(t, u) == ~t.nat /\ ~u.nat /\ ~Before(u, t)

Lt(t, u) == ~t.nat /\ ~u.nat /\ Before(t, u)

(* A raw date cell: absent, text that is no date, or text with date      *)
(* fields as written (which need not name a real date or time).          *)
NaNCell == [kind |-> "nan", y |-> 0, m |-> 0, d |-> 0, s |-> 0]

JunkCell == [kind |-> "junk", y |-> 0, m |-> 0, d |-> 0, s |-> 0]

Stamp(y, m, d, s) == [kind |-> "stamp", y |-> y, m |-> m, d |-> d, s |-> s]

Parseable(cell) ==
    /\ cell.kind = "stamp"
    /\ ValidDate(cell.y, cell.m, cell.d)
    /\ cell.s \in 0..86399

ToDatetimeUnchecked(cell) ==
    IF cell.kind = "stamp"
    THEN [nat |-> FALSE, y |-> cell.y, m |-> cell.m, d |-> cell.d, s |-> cell.s]
    ELSE NaT

(* pd.to_datetime(column, errors='coerce') on one cell. *)
ToDatetimeCoerce(cell) ==
    IF Parseable(cell)
    THEN [nat |-> FALSE, y |-> cell.y, m |-> cell.m, d |-> cell.d, s |-> cell.s]
    ELSE NaT

(* month_ending_date.replace(day=1) *)
MonthStart(date) == Timestamp([date EXCEPT !.d = 1])

MonthEndNoRollover(date) == Timestamp([y |-> date.y, m |-> date.m + 1, d |-> 1])

(* The exclusive upper bound of the month of date. *)
MonthEnd(date) ==
    IF date.m = 12
    THEN Timestamp([y |-> date.y + 1, m |-> 1, d |-> 1])
    ELSE Timestamp([y |-> date.y, m |-> date.m + 1, d |-> 1])

(* The boolean mask of the period filter for one raw row.  The column is *)
(* converted in place before (line 74); the model keeps the raw cell in   *)
(* df and converts at each use.                                           *)
Mask(row, start, end) ==
    /\ Ge(ToDatetimeCoerce(row.date_won), start)
    /\ Lt(ToDatetimeCoerce(row.date_won), end)
    /\ row.status = "Sold"

RECURSIVE KeptFrom(_, _, _, _)
KeptFrom(rows, start, end, i) ==
    IF i > Len(rows) THEN <<>>
    ELSE (IF Mask(rows[i], start, end) THEN <<i>> ELSE <<>>)
         \o KeptFrom(rows, start, end, i + 1)

(* df[mask]: the index labels of the rows kept, in input order. *)
FilterRows(rows, start, end) == KeptFrom(rows, start, end, 1)

----------------------------------------------------------------------------
(* Text. *)

Whitespace == {" ", "\t"}

RECURSIVE SplitFrom(_, _, _)
SplitFrom(s, i, cur) ==
    IF i > Len(s) THEN (IF cur = <<>> THEN <<>> ELSE <<cur>>)
    ELSE IF s[i] \in Whitespace
         THEN (IF cur = <<>> THEN <<>> ELSE <<cur>>) \o SplitFrom(s, i + 1, <<>>)
         ELSE SplitFrom(s, i + 1, Append(cur, s[i]))

(* str.split(): the maximal runs of non-whitespace characters, in order. *)
Split(s) == SplitFrom(s, 1, <<>>)

Unknown == <<"U", "n", "k", "n", "o", "w", "n">>

(* A display_name cell: NaN, or text. *)
NaNName == [isna |-> TRUE, text |-> <<>>]

Name(text) == [isna |-> FALSE, text |-> text]

extract_first_token(name) ==
    IF name.isna THEN Unknown
    ELSE LET parts == Split(name.text)
         IN  IF Len(parts) >= 2 THEN parts[1] ELSE Unknown

extract_county_from_display_name(name) ==
    IF name.isna THEN Unknown
    ELSE LET parts == Split(name.text)
         IN  IF Len(parts) >= 2 THEN parts[2] ELSE Unknown

extract_grantor_from_display_name(name) ==
    IF name.isna THEN Unknown
    ELSE LET parts == Split(name.text)
         IN  IF Len(parts) >= 3 THEN parts[3] ELSE Unknown

----------------------------------------------------------------------------
(* format_currency: f"${value:,.2f}". *)

DigitChar(d) == <<"0", "1", "2", "3", "4", "5", "6", "7", "8", "9">>[d + 1]

RECURSIVE Digits(_)
Digits(n) == IF n < 10 THEN <<DigitChar(n)>> ELSE Append(Digits(n \div 10), DigitChar(n % 10))

(* The "," option: a comma before every group of three digits but the first. *)
RECURSIVE Grouped(_)
Grouped(ds) ==
    IF Len(ds) <= 3 THEN ds
    ELSE Grouped(SubSeq(ds, 1, Len(ds) - 3)) \o <<",">> \o SubSeq(ds, Len(ds) - 2, Len(ds))

Abs(x) == IF x < 0 THEN -x ELSE x

(* ".2f": the magnitude in cents, ties to the even cent (the values drawn *)
(* with a tie are binary fractions, which float64 holds exactly).         *)
RoundCents(mag) ==
    LET q == mag \div 10
        r == mag % 10
    IN  IF r < 5 THEN q
        ELSE IF r > 5 THEN q + 1
        ELSE IF q % 2 = 0 THEN q ELSE q + 1

format_currency(v) ==
    LET cents == RoundCents(Abs(v))
        whole == cents \div 100
        frac  == cents % 100
    IN  <<"$">>
        \o (IF v < 0 THEN <<"-">> ELSE <<>>)
        \o Grouped(Digits(whole))
        \o <<".", DigitChar(frac \div 10), DigitChar(frac % 10)>>

----------------------------------------------------------------------------
(* One row of process_close_export's loop. *)

(* A money cell: NaN, text that float() rejects, or a number. *)
NaNMoney == [kind |-> "nan", v |-> 0]

TextMoney == [kind |-> "text", v |-> 0]

Num(v) == [kind |-> "num", v |-> v]

(* float(x) if pd.notna(x) else 0.0, for a cell float() accepts. *)
MoneyOrZero(cell) == IF cell.kind = "nan" THEN 0 ELSE cell.v

(* float(x) raises ValueError. *)
FloatRaises(cell) == cell.kind = "text"

(* pd.to_datetime(x) of a present cell raises (no errors='coerce' here). *)
ToDatetimeRaises(cell) == cell.kind # "nan" /\ ~Parseable(cell)

TwoDigits(n) == <<DigitChar((n % 100) \div 10), DigitChar(n % 10)>>

(* strftime('%m/%d/%y') of the asset-sold date, '' when it is absent. *)
FundingDate(cell) ==
    IF cell.kind = "nan" THEN <<>>
    ELSE TwoDigits(cell.m) \o <<"/">> \o TwoDigits(cell.d) \o <<"/">> \o TwoDigits(cell.y)

(* x if pd.notna(x) else '' *)
TextOrEmpty(cell) == IF cell.isna THEN <<>> ELSE cell.text

(* The loop body raises on this row. *)
RowRaises(row) ==
    \/ ToDatetimeRaises(row.date_sold)
    \/ FloatRaises(row.price)
    \/ FloatRaises(row.closing)
    \/ FloatRaises(row.cost_basis)

CashToSeller(contract_price, reductions) == contract_price - reductions

AssetCost(cost_basis, mls) == cost_basis + mls

GrossProfitClamped(cash_to_seller, asset_cost) ==
    IF cash_to_seller - asset_cost < 0 THEN 0 ELSE cash_to_seller - asset_cost

GrossProfit(cash_to_seller, asset_cost) == cash_to_seller - asset_cost

(* The dict appended to results for one filtered row. *)
BonusRow(row, mls) ==
    LET contract_price == MoneyOrZero(row.price)
        closing_costs  == MoneyOrZero(row.closing)
        cost_basis     == MoneyOrZero(row.cost_basis)
        reductions     == closing_costs
        cash_to_seller == CashToSeller(contract_price, reductions)
        asset_cost     == AssetCost(cost_basis, mls)
        gross_profit   == GrossProfit(cash_to_seller, asset_cost)
    IN  [funding_date      |-> FundingDate(row.date_sold),
         state             |-> TextOrEmpty(row.state),
         county            |-> extract_county_from_display_name(row.display_name),
         grantor           |-> extract_grantor_from_display_name(row.display_name),
         apn               |-> TextOrEmpty(row.apn),
         gross_sales_price |-> contract_price,
         closing_costs     |-> reductions,
         cash_to_seller    |-> cash_to_seller,
         asset_cost        |-> asset_cost,
         gross_profit      |-> gross_profit]

(* A DataFrame value or None (None also stands for a name that is not   *)
(* bound yet); dtype is the dtype of the five currency columns: float64 *)
(* for numbers, object once they hold strings.                          *)
None == [isNone |-> TRUE, dtype |-> "none", rows |-> <<>>]

Frame(rows, dtype) == [isNone |-> FALSE, dtype |-> dtype, rows |-> rows]

EmptyFrame == Frame(<<>>, "float64")

(* What process_close_export returns for an empty filter result. *)
EmptyResult == None

(* pd.DataFrame(results) for the kept rows. *)
Results(rows, kept, mls) ==
    Frame([k \in 1..Len(kept) |-> BonusRow(rows[kept[k]], mls)], "float64")

----------------------------------------------------------------------------
(* The display frame. *)

CurrencyCell(x) == format_currency(x)

(* create_bonus_schedule_dataframe: a copy with the five currency columns formatted. *)
create_bonus_schedule_dataframe(frame) ==
    Frame([k \in 1..Len(frame.rows) |->
              [frame.rows[k] EXCEPT
                  !.gross_sales_price = CurrencyCell(@),
                  !.closing_costs     = CurrencyCell(@),
                  !.cash_to_seller    = CurrencyCell(@),
                  !.asset_cost        = CurrencyCell(@),
                  !.gross_profit      = CurrencyCell(@)]],
          "object")

FrameFormattedInPlace(frame) == create_bonus_schedule_dataframe(frame)

(* processed_df after create_bonus_schedule_dataframe(processed_df): the *)
(* function works on processed_df.copy(), so the argument is untouched.  *)
FrameAfterDisplay(frame) == frame

TotalWithoutAdjustment(sub, adjustment) == sub

(* total = subtotal + prior_adjustment *)
Total(sub, adjustment) == sub + adjustment

RECURSIVE SumGrossProfit(_)
SumGrossProfit(rows) ==
    IF rows = <<>> THEN 0
    ELSE SumGrossProfit(SubSeq(rows, 1, Len(rows) - 1)) + rows[Len(rows)].gross_profit

----------------------------------------------------------------------------
(* The exports. *)

(* The columns of pd.DataFrame(results): the keys of the row dicts, in *)
(* insertion order.                                                    *)
Columns ==
    <<"Funding Date", "State", "County", "Grantor", "APN", "Gross Sales Price",
      "Closing Costs", "Cash to Seller", "Asset Cost", "Gross Profit">>

(* The cells of one frame row, in column order. *)
RowCells(row) ==
    <<row.funding_date, row.state, row.county, row.grantor, row.apn,
      row.gross_sales_price, row.closing_costs, row.cash_to_seller,
      row.asset_cost, row.gross_profit>>

Quote == "\""

RECURSIVE DoubleQuotes(_)
DoubleQuotes(t) ==
    IF t = <<>> THEN <<>>
    ELSE (IF Head(t) = Quote THEN <<Quote, Quote>> ELSE <<Head(t)>>)
         \o DoubleQuotes(Tail(t))

(* csv.QUOTE_MINIMAL: a field holding the delimiter, a quote or a line *)
(* break is put in quotes, its quotes doubled.                         *)
CsvField(t) ==
    IF \E i \in 1..Len(t) : t[i] \in {",", Quote, "\n", "\r"}
    THEN <<Quote>> \o DoubleQuotes(t) \o <<Quote>>
    ELSE t

NoCsv == [header |-> <<>>, lines |-> <<>>]

to_csv_with_totals(frame) ==
    [header |-> Columns,
     lines  |-> [k \in 1..Len(frame.rows) + 1 |->
                    IF k <= Len(frame.rows)
                    THEN [c \in 1..Len(Columns) |-> CsvField(RowCells(frame.rows[k])[c])]
                    ELSE [c \in 1..Len(Columns) |->
                             IF c = Len(Columns) - 1
                             THEN <<"T", "O", "T", "A", "L">> ELSE <<>>]]]

(* frame.to_csv(index=False): the header line, then one line per row. *)
to_csv(frame) ==
    [header |-> Columns,
     lines  |-> [k \in 1..Len(frame.rows) |->
                    [c \in 1..Len(Columns) |-> CsvField(RowCells(frame.rows[k])[c])]]]

(* A worksheet: a function from <<column, row>> (both from 1) to a cell. *)
NoSheet == [c \in {} |-> 0]

TextCell(label) == [kind |-> "text", label |-> label, text |-> <<>>]

PeriodCell(text) == [kind |-> "period", label |-> "Month Ending: ", text |-> text]

HeaderCell(label) == [kind |-> "header", label |-> label, text |-> <<>>]

DataCell(text) == [kind |-> "data", label |-> "", text |-> text]

ValueCell(text) == [kind |-> "value", label |-> "", text |-> text]

(* worksheet[cell] = value: a cell written twice keeps the last value. *)
Write(sheet, col, row, cell) ==
    [c \in DOMAIN sheet \cup {<<col, row>>} |->
        IF c = <<col, row>> THEN cell ELSE sheet[c]]

(* strftime("%m/%d/%Y") *)
LongDate(date) ==
    TwoDigits(date.m) \o <<"/">> \o TwoDigits(date.d) \o <<"/">>
    \o TwoDigits(date.y \div 100) \o TwoDigits(date.y)

(* startrow of to_excel, counted from 0. *)
StartRow == 2

(* frame.to_excel(writer, index=False, startrow=2): the header row, then *)
(* one row per frame row.                                                *)
to_excel(frame) ==
    [c \in (1..Len(Columns)) \X ((StartRow + 1)..(StartRow + 1 + Len(frame.rows))) |->
        IF c[2] = StartRow + 1
        THEN HeaderCell(Columns[c[1]])
        ELSE DataCell(RowCells(frame.rows[c[2] - StartRow - 1])[c[1]])]

LastRowOverlapping(n) == n + 3

(* last_row = len(processed_df) + 4 *)
LastRow(n) == n + 4

(* The worksheet export_to_excel leaves (fonts and widths left out). *)
export_to_excel(frame, date, sub, prior_adj, tot) ==
    LET last_row == LastRow(Len(frame.rows))
        s0 == to_excel(frame)
        s1 == Write(s0, 1, 1, TextCell("Remarkable Land Bonus Schedule"))
        s2 == Write(s1, 1, 2, PeriodCell(LongDate(date)))
        s3 == Write(s2, 9, last_row, TextCell("SUBTOTAL"))
        s4 == Write(s3, 10, last_row, ValueCell(sub))
        s5 == Write(s4, 9, last_row + 1, TextCell("PRIOR ADJUSTMENT"))
        s6 == Write(s5, 10, last_row + 1, ValueCell(prior_adj))
        s7 == Write(s6, 9, last_row + 2, TextCell("TOTAL"))
    IN  Write(s7, 10, last_row + 2, ValueCell(tot))

(* The length of a signature line: "_" * 35. *)
SignatureLineLength == 35

SignatureLine == [k \in 1..SignatureLineLength |-> "_"]

Blank == <<>>

Spacer == <<" ", " ", " ", " ">>

NumRowsRoundedDown(n) == n \div 2

(* num_rows = (len(team_members) + 1) // 2 *)
NumRows(n) == (n + 1) \div 2

(* One row of sig_data, i counted from 0. *)
SignatureRow(members, i) ==
    (IF i * 2 < Len(members)
     THEN <<members[i * 2 + 1], SignatureLine>>
     ELSE <<Blank, Blank>>)
    \o <<Spacer>>
    \o (IF i * 2 + 1 < Len(members)
        THEN <<members[i * 2 + 2], SignatureLine>>
        ELSE <<Blank, Blank>>)

(* sig_data of export_to_pdf; no table for an empty team list. *)
SignatureGrid(members) ==
    IF Len(members) > 0
    THEN [r \in 1..NumRows(Len(members)) |-> SignatureRow(members, r - 1)]
    ELSE <<>>

----------------------------------------------------------------------------
(* The inputs drawn. *)

Text2(a, b) == Name(<<a, b>>)

BaseName == Name(<<"T", "X", " ", "H", "i", " ", "M", "u", " ", "1">>)

(* The last second of December 2023. *)
InStamp == Stamp(2023, 12, 31, 86399)

(* The scenario row: price 100000, closing costs 2000, cost basis 50000. *)
BaseRow ==
    [date_won     |-> InStamp,
     status       |-> "Sold",
     date_sold    |-> Stamp(2024, 1, 5, 0),
     state        |-> Text2("T", "X"),
     display_name |-> BaseName,
     apn          |-> Text2("4", "2"),
     price        |-> Num(Dollars(100000)),
     closing      |-> Num(Dollars(2000)),
     cost_basis   |-> Num(Dollars(50000))]

(* Close timestamps around the windows of the target months, and cells *)
(* that are no timestamp.                                               *)
WindowStamps ==
    {Stamp(2023, 11, 30, 86399), Stamp(2023, 12, 1, 0), InStamp,
     Stamp(2024, 1, 1, 0), Stamp(2022, 12, 31, 86399),
     Stamp(2024, 2, 29, 86399), Stamp(2024, 3, 1, 0),
     Stamp(2024, 2, 30, 0), Stamp(2023, 12, 31, 90000), JunkCell, NaNCell}

(* The status label; "" stands for an absent cell. *)
Statuses == {"Sold", "sold", "Pending", ""}

(* Rows in the December 2023 window with one or more odd fields. *)
FieldRows ==
    {[BaseRow EXCEPT !.price = Num(Dollars(1000)), !.closing = Num(125)],
     [BaseRow EXCEPT !.price = TextMoney, !.cost_basis = TextMoney],
     [BaseRow EXCEPT !.closing = NaNMoney, !.cost_basis = NaNMoney, !.price = NaNMoney],
     [BaseRow EXCEPT !.date_sold = NaNCell],
     [BaseRow EXCEPT !.date_sold = JunkCell],
     [BaseRow EXCEPT !.date_won = JunkCell, !.price = TextMoney],
     [BaseRow EXCEPT !.display_name = Name(<<"O", "K", "\t", "M", "c">>)],
     [BaseRow EXCEPT !.display_name = NaNName, !.state = NaNName, !.apn = NaNName]}

RowSet ==
    {[BaseRow EXCEPT !.date_won = t] : t \in WindowStamps}
    \cup {[BaseRow EXCEPT !.status = st] : st \in Statuses}
    \cup FieldRows

RowSeqs == UNION {[1..n -> RowSet] : n \in 0..MaxRows}

(* Valid calendar dates, as the date input yields. *)
TargetDates == {[y |-> 2023, m |-> 12, d |-> 31], [y |-> 2024, m |-> 2, d |-> 15]}

Adjustments == {0, Dollars(1000), -Dollars(60000)}

MlsCosts == {Dollars(500)}

CurrencyValues ==
    {sign * (Dollars(whole) + part) :
        sign \in {1, -1},
        whole \in {0, 1, 12, 999, 1000, 12345, 999999, 1000000},
        part \in {0, 4, 6, 125, 375, 500, 990, 996}}

NameChars == {"T", "x", " ", "\t"}

(* Team member names as line 31 leaves them: stripped and not empty. *)
MemberNames == {<<"B", "F">>, <<"L">>, <<"R", ".", "D">>}

TeamLists == UNION {[1..n -> MemberNames] : n \in 0..MaxTeam}

DisplayNames ==
    {NaNName} \cup {Name(t) : t \in UNION {[1..n -> NameChars] : n \in 0..MaxNameLen}}

----------------------------------------------------------------------------
(* The script run. *)

RunIdle ==
    /\ df = <<>>
    /\ month_ending = [y |-> 2023, m |-> 12, d |-> 31]
    /\ prior_adjustment = 0
    /\ mls_cost = Dollars(500)
    /\ pc = "idle"
    /\ month_start = NaT
    /\ month_end = NaT
    /\ df_filtered = <<>>
    /\ processed_df = None
    /\ defined = {}
    /\ subtotal = 0
    /\ total = 0
    /\ display_df = None
    /\ rendered = {}
    /\ pdf_data = "unbound"
    /\ excel_data = NoSheet
    /\ csv = NoCsv

CurrencyIdle == value = 0 /\ formatted = <<>>

NameIdle == display_name = NaNName /\ county = <<>> /\ grantor = <<>>

SigIdle == team_members = <<>> /\ sig_data = <<>>

(* The state when the main block starts: a file is uploaded and read. *)
Init ==
    /\ df \in RowSeqs
    /\ month_ending \in TargetDates
    /\ prior_adjustment \in Adjustments
    /\ mls_cost \in MlsCosts
    /\ pc = "uploaded"
    /\ month_start = NaT
    /\ month_end = NaT
    /\ df_filtered = <<>>
    /\ processed_df = None
    /\ defined = {}
    /\ subtotal = 0
    /\ total = 0
    /\ display_df = None
    /\ rendered = {}
    /\ pdf_data = "unbound"
    /\ excel_data = NoSheet
    /\ csv = NoCsv
    /\ CurrencyIdle
    /\ NameIdle
    /\ SigIdle

(* processed_df = process_close_export(df, month_ending) *)
ProcessCloseExport ==
    /\ pc = "uploaded"
    /\ LET start == MonthStart(month_ending)
           end   == MonthEnd(month_ending)
           kept  == FilterRows(df, start, end)
       IN  /\ month_start' = start
           /\ month_end' = end
           /\ df_filtered' = kept
           /\ IF Len(kept) = 0
              THEN /\ processed_df' = EmptyResult
                   /\ pc' = "returned"
              ELSE IF \E k \in 1..Len(kept) : RowRaises(df[kept[k]])
              THEN /\ processed_df' = processed_df
                   /\ pc' = "raised"
              ELSE /\ processed_df' = Results(df, kept, mls_cost)
                   /\ pc' = "returned"
    /\ UNCHANGED <<df, month_ending, prior_adjustment, mls_cost, defined,
                   subtotal, total, display_df, rendered, pdf_data>>
    /\ UNCHANGED <<currencyVars, nameVars, sigVars, exportVars>>

(* except Exception as e: st.error(...) *)
HandleException ==
    /\ pc = "raised"
    /\ pc' = "error"
    /\ UNCHANGED <<df, month_ending, prior_adjustment, mls_cost, month_start,
                   month_end, df_filtered, processed_df, defined, subtotal,
                   total, display_df, rendered, pdf_data>>
    /\ UNCHANGED <<currencyVars, nameVars, sigVars, exportVars>>

(* The test of the main block's if. *)
NothingSold(frame) == frame.isNone \/ Len(frame.rows) = 0

(* st.warning("No sold properties found ...") *)
WarnNoRecords ==
    /\ pc = "returned"
    /\ NothingSold(processed_df)
    /\ pc' = "warned"
    /\ UNCHANGED <<df, month_ending, prior_adjustment, mls_cost, month_start,
                   month_end, df_filtered, processed_df, defined, subtotal,
                   total, display_df, rendered, pdf_data>>
    /\ UNCHANGED <<currencyVars, nameVars, sigVars, exportVars>>

(* subtotal = processed_df['Gross Profit'].sum(); total = subtotal + prior_adjustment *)
ComputeTotals ==
    /\ pc = "returned"
    /\ ~NothingSold(processed_df)
    /\ subtotal' = SumGrossProfit(processed_df.rows)
    /\ total' = Total(subtotal', prior_adjustment)
    /\ defined' = defined \cup {"subtotal", "total"}
    /\ pc' = "totalled"
    /\ UNCHANGED <<df, month_ending, prior_adjustment, mls_cost, month_start,
                   month_end, df_filtered, processed_df, display_df, rendered,
                   pdf_data>>
    /\ UNCHANGED <<currencyVars, nameVars, sigVars, exportVars>>

(* display_df = create_bonus_schedule_dataframe(processed_df) *)
CreateDisplay ==
    /\ pc = "totalled"
    /\ display_df' = create_bonus_schedule_dataframe(processed_df)
    /\ processed_df' = FrameAfterDisplay(processed_df)
    /\ defined' = defined \cup {"display_df"}
    /\ pc' = "displayed"
    /\ UNCHANGED <<df, month_ending, prior_adjustment, mls_cost, month_start,
                   month_end, df_filtered, subtotal, total, rendered, pdf_data>>
    /\ UNCHANGED <<currencyVars, nameVars, sigVars, exportVars>>

(* pdf_data = export_to_pdf(display_df.copy(), ...): None without reportlab. *)
ExportPdf ==
    /\ pc = "displayed"
    /\ \E reportlab \in BOOLEAN :
          pdf_data' = IF reportlab THEN "buffer" ELSE "None"
    /\ rendered' = rendered \cup {"pdf"}
    /\ defined' = defined \cup {"pdf_data"}
    /\ pc' = "pdf"
    /\ UNCHANGED <<df, month_ending, prior_adjustment, mls_cost, month_start,
                   month_end, df_filtered, processed_df, subtotal, total,
                   display_df>>
    /\ UNCHANGED <<currencyVars, nameVars, sigVars, exportVars>>

(* excel_data = export_to_excel(display_df.copy(), ...) *)
ExportExcel ==
    /\ pc = "pdf"
    /\ excel_data' = export_to_excel(display_df, month_ending,
                                      format_currency(subtotal),
                                      format_currency(prior_adjustment),
                                      format_currency(total))
    /\ rendered' = rendered \cup {"excel"}
    /\ defined' = defined \cup {"excel_data"}
    /\ pc' = "excel"
    /\ UNCHANGED <<df, month_ending, prior_adjustment, mls_cost, month_start,
                   month_end, df_filtered, processed_df, subtotal, total,
                   display_df, pdf_data>>
    /\ UNCHANGED <<currencyVars, nameVars, sigVars, csv>>

(* csv = display_df.to_csv(index=False) *)
ExportCsv ==
    /\ pc = "excel"
    /\ csv' = to_csv(display_df)
    /\ rendered' = rendered \cup {"csv"}
    /\ defined' = defined \cup {"csv"}
    /\ pc' = "done"
    /\ UNCHANGED <<df, month_ending, prior_adjustment, mls_cost, month_start,
                   month_end, df_filtered, processed_df, subtotal, total,
                   display_df, pdf_data>>
    /\ UNCHANGED <<currencyVars, nameVars, sigVars, excel_data>>

Next ==
    \/ ProcessCloseExport
    \/ HandleException
    \/ WarnNoRecords
    \/ ComputeTotals
    \/ CreateDisplay
    \/ ExportPdf
    \/ ExportExcel
    \/ ExportCsv

Spec == Init /\ [][Next]_vars

----------------------------------------------------------------------------
(* format_currency applied to drawn values. *)

InitCurrency ==
    /\ RunIdle
    /\ NameIdle
    /\ SigIdle
    /\ value \in CurrencyValues
    /\ formatted = <<>>

FormatCurrencyCall ==
    /\ formatted = <<>>
    /\ formatted' = format_currency(value)
    /\ UNCHANGED <<value, runVars, nameVars, sigVars>>

NextCurrency == FormatCurrencyCall

SpecCurrency == InitCurrency /\ [][NextCurrency]_vars

----------------------------------------------------------------------------
(* The display-name extractors applied to drawn names. *)

InitName ==
    /\ RunIdle
    /\ CurrencyIdle
    /\ SigIdle
    /\ display_name \in DisplayNames
    /\ county = <<>>
    /\ grantor = <<>>

ExtractCall ==
    /\ county = <<>>
    /\ county' = extract_county_from_display_name(display_name)
    /\ grantor' = extract_grantor_from_display_name(display_name)
    /\ UNCHANGED <<display_name, runVars, currencyVars, sigVars>>

NextName == ExtractCall

SpecName == InitName /\ [][NextName]_vars

----------------------------------------------------------------------------
(* The signature block of export_to_pdf (reportlab present) applied to *)
(* drawn team lists.                                                   *)

InitSignature ==
    /\ RunIdle
    /\ CurrencyIdle
    /\ NameIdle
    /\ team_members \in TeamLists
    /\ sig_data = <<>>

BuildSignatures ==
    /\ pdf_data = "unbound"
    /\ sig_data' = SignatureGrid(team_members)
    /\ pdf_data' = "buffer"
    /\ UNCHANGED <<df, month_ending, prior_adjustment, mls_cost, pc, month_start,
                   month_end, df_filtered, processed_df, defined, subtotal,
                   total, display_df, rendered, excel_data, csv>>
    /\ UNCHANGED <<team_members, currencyVars, nameVars>>

NextSignature == BuildSignatures

SpecSignature == InitSignature /\ [][NextSignature]_vars

----------------------------------------------------------------------------
(* Properties. *)

Returned == pc \notin {"idle", "uploaded"}

Kept == {df_filtered[k] : k \in 1..Len(df_filtered)}

(* The close timestamp of a cell lies in the calendar month of date. *)
InMonthOf(cell, date) ==
    /\ cell.kind = "stamp"
    /\ ValidDate(cell.y, cell.m, cell.d)
    /\ cell.s >= 0 /\ cell.s < 86400
    /\ cell.y = date.y
    /\ cell.m = date.m

LastSecondOfMonth(date) == Stamp(date.y, date.m, DaysInMonth(date.y, date.m), 86399)

FirstSecondOfNextMonth(date) ==
    IF date.m = 12 THEN Stamp(date.y + 1, 1, 1, 0) ELSE Stamp(date.y, date.m + 1, 1, 0)

(* C1: process_close_export keeps a row if and only if its close timestamp *)
(* lies in the half-open month window of the target date and its status is *)
(* exactly "Sold"; a row at 23:59:59 of the last day of the month is kept  *)
(* and a row at 00:00:00 of the first day of the next month is dropped.    *)
C1_PeriodFilter ==
    Returned =>
        /\ \A i \in 1..Len(df) :
              i \in Kept <=> (InMonthOf(df[i].date_won, month_ending) /\ df[i].status = "Sold")
        /\ \A i \in 1..Len(df) :
              /\ (df[i].date_won = LastSecondOfMonth(month_ending) /\ df[i].status = "Sold")
                    => i \in Kept
              /\ df[i].date_won = FirstSecondOfNextMonth(month_ending) => i \notin Kept

C1_Witness ==
    /\ Returned
    /\ \E i, j \in 1..Len(df) :
          /\ df[i].date_won = LastSecondOfMonth(month_ending)
          /\ df[i].status = "Sold"
          /\ i \in Kept
          /\ df[j].date_won = FirstSecondOfNextMonth(month_ending)
          /\ df[j].status = "Sold"
          /\ j \notin Kept

(* The value of a raw money cell: the number, 0.0 when absent. *)
RawValue(cell) == IF cell.kind = "num" THEN cell.v ELSE 0

BonusRows == processed_df.rows

RowOrders(n) == {f \in [1..n -> 1..n] : \A a, b \in 1..n : f[a] = f[b] => a = b}

RECURSIVE SumInOrder(_, _, _)
SumInOrder(rows, order, k) ==
    IF k > Len(rows) THEN 0
    ELSE rows[order[k]].gross_profit + SumInOrder(rows, order, k + 1)

Finished == pc \in {"warned", "done"}

(* C3 as stated: for every BonusRow set, the empty one included, the run  *)
(* yields subtotal = sum of gross_profit and total = subtotal +           *)
(* prior_adjustment, so the empty set gives total = prior_adjustment.     *)
C3_AsStated ==
    Finished =>
        /\ {"subtotal", "total"} \subseteq defined
        /\ subtotal = SumInOrder(BonusRows, [k \in 1..Len(BonusRows) |-> k], 1)
        /\ total = subtotal + prior_adjustment

(* C3 amended: for every non-empty BonusRow set, subtotal is the sum of   *)
(* gross_profit in whatever order the rows are taken and total = subtotal *)
(* + prior_adjustment; for an empty filter result no totals are computed. *)
C3_Totals ==
    /\ ("subtotal" \in defined \/ "total" \in defined) =>
          /\ {"subtotal", "total"} \subseteq defined
          /\ Len(BonusRows) > 0
          /\ \A order \in RowOrders(Len(BonusRows)) :
                subtotal = SumInOrder(BonusRows, order, 1)
          /\ total = subtotal + prior_adjustment
    /\ (Returned /\ pc \notin {"raised", "error", "returned"}) =>
          ("total" \in defined <=> Len(BonusRows) > 0)

C3_Witness ==
    /\ pc = "done"
    /\ Len(BonusRows) = 2
    /\ BonusRows[1].gross_profit # BonusRows[2].gross_profit
    /\ prior_adjustment < 0
    /\ total = BonusRows[1].gross_profit + BonusRows[2].gross_profit + prior_adjustment

(* C4: when the period filter leaves no row, process_close_export returns *)
(* None, the run goes to the "no sold properties" warning, and no totals  *)
(* are computed and no renderer is invoked in that run.                   *)
C4_EmptyStateOk ==
    (Returned /\ Len(df_filtered) = 0) =>
        /\ processed_df = None
        /\ pc \in {"returned", "warned"}
        /\ defined = {}
        /\ rendered = {}
        /\ pdf_data = "unbound"
        /\ display_df = None

C4_EmptyPeriod ==
    /\ []C4_EmptyStateOk
    /\ [][(pc = "returned" /\ Len(df_filtered) = 0) => pc' = "warned"]_vars

C4_Witness ==
    /\ pc = "warned"
    /\ Len(df) = 2
    /\ Len(df_filtered) = 0
    /\ \E i \in 1..Len(df) : df[i].status # "Sold" /\ InMonthOf(df[i].date_won, month_ending)

(* C5: a malformed value in one field of a row that passes the period     *)
(* filter never aborts the run: the field takes its typed default, the    *)
(* row is emitted and the other rows are processed normally.              *)
C5_MalformedFieldTolerated ==
    (Returned /\ Len(df_filtered) > 0) =>
        /\ pc \notin {"raised", "error"}
        /\ ~processed_df.isNone
        /\ Len(BonusRows) = Len(df_filtered)
        /\ \A k \in 1..Len(BonusRows) :
              LET raw == df[df_filtered[k]]
              IN  /\ BonusRows[k].gross_sales_price = RawValue(raw.price)
                  /\ BonusRows[k].closing_costs = RawValue(raw.closing)
                  /\ ~Parseable(raw.date_sold) => BonusRows[k].funding_date = <<>>

(* The part of C5 the code has: an absent field takes its typed default. *)
AbsentFieldTolerated ==
    (Returned /\ Len(df_filtered) > 0
        /\ \A k \in 1..Len(df_filtered) :
              LET raw == df[df_filtered[k]]
              IN  /\ raw.date_sold.kind \in {"nan"} \/ Parseable(raw.date_sold)
                  /\ raw.price.kind # "text"
                  /\ raw.closing.kind # "text"
                  /\ raw.cost_basis.kind # "text") =>
        /\ pc \notin {"raised", "error"}
        /\ Len(BonusRows) = Len(df_filtered)
        /\ \A k \in 1..Len(BonusRows) :
              LET raw == df[df_filtered[k]]
              IN  /\ BonusRows[k].gross_sales_price = RawValue(raw.price)
                  /\ raw.date_sold.kind = "nan" => BonusRows[k].funding_date = <<>>

(* C6: the exclusive upper bound of the window is the first day of the    *)
(* month after the target date's month: January 1 of the next year for a  *)
(* December date, never month 13 or month 0.                              *)
C6_MonthEnd ==
    Returned =>
        /\ ~month_end.nat
        /\ month_end.d = 1
        /\ month_end.s = 0
        /\ month_end.m \in 1..12
        /\ month_end.y * 12 + month_end.m = month_ending.y * 12 + month_ending.m + 1
        /\ month_ending.m = 12 =>
              (month_end.y = month_ending.y + 1 /\ month_end.m = 1)
        /\ month_ending.m # 12 =>
              (month_end.y = month_ending.y /\ month_end.m = month_ending.m + 1)

C6_Witness ==
    /\ Returned
    /\ month_ending.m = 12
    /\ month_end = [nat |-> FALSE, y |-> month_ending.y + 1, m |-> 1, d |-> 1, s |-> 0]

NoTimestamp(row) == ~Parseable(row.date_won)

RECURSIVE WithTimestamp(_)
WithTimestamp(rows) ==
    IF rows = <<>> THEN <<>>
    ELSE (IF NoTimestamp(Head(rows)) THEN <<>> ELSE <<Head(rows)>>)
         \o WithTimestamp(Tail(rows))

RowsAt(rows, labels) == [k \in 1..Len(labels) |-> rows[labels[k]]]

C9_NumericStateOk ==
    /\ "display_df" \in defined <=> display_df.dtype = "object"
    /\ "display_df" \in defined => {"subtotal", "total"} \subseteq defined
    /\ rendered # {} => "display_df" \in defined
    /\ processed_df.dtype \in {"none", "float64"}
    /\ "subtotal" \in defined =>
          /\ processed_df.dtype = "float64"
          /\ subtotal = SumInOrder(BonusRows, [k \in 1..Len(BonusRows) |-> k], 1)
          /\ total = subtotal + prior_adjustment

SameNumericFrame(before, after) ==
    IF after.dtype # before.dtype THEN FALSE ELSE after = before

C9_FormattingIsOneWay ==
    /\ []C9_NumericStateOk
    /\ [][pc = "returned" => display_df' = None]_vars
    /\ [][(pc \in {"returned", "totalled", "displayed", "pdf", "excel"}) =>
             SameNumericFrame(processed_df, processed_df')]_vars
    /\ [][("subtotal" \in defined) =>
             (subtotal' = subtotal /\ total' = total)]_vars

C9_Witness ==
    /\ pc = "done"
    /\ rendered = {"pdf", "excel", "csv"}
    /\ Len(BonusRows) = 2
    /\ display_df.rows[1].gross_profit = format_currency(BonusRows[1].gross_profit)
    /\ processed_df.dtype = "float64"
    /\ subtotal = BonusRows[1].gross_profit + BonusRows[2].gross_profit

IsDigit(c) == c \in {"0", "1", "2", "3", "4", "5", "6", "7", "8", "9"}

(* "$", a thousands-grouped integer part, ".", two digits. *)
WellFormedAmount(t) ==
    /\ Len(t) >= 5
    /\ t[1] = "$"
    /\ t[Len(t) - 2] = "."
    /\ IsDigit(t[Len(t) - 1])
    /\ IsDigit(t[Len(t)])
    /\ LET whole == SubSeq(t, 2, Len(t) - 3)
           n     == Len(whole)
       IN  /\ n >= 1
           /\ IsDigit(whole[1])
           /\ \A j \in 1..n :
                 IF (n - j + 1) % 4 = 0 THEN whole[j] = "," ELSE IsDigit(whole[j])

MinusBeforeSymbol(t) == Len(t) >= 1 /\ t[1] = "-" /\ WellFormedAmount(Tail(t))

InParentheses(t) ==
    /\ Len(t) >= 2
    /\ t[1] = "("
    /\ t[Len(t)] = ")"
    /\ WellFormedAmount(SubSeq(t, 2, Len(t) - 1))

(* C8: format_currency returns a leading currency symbol, a thousands-    *)
(* grouped integer part and exactly two fractional digits, and a negative *)
(* value has its minus sign before the currency symbol (or is put in      *)
(* parentheses).                                                          *)
C8_CurrencyShape ==
    formatted # <<>> =>
        IF value >= 0 THEN WellFormedAmount(formatted)
        ELSE MinusBeforeSymbol(formatted) \/ InParentheses(formatted)

(* What format_currency does: the sign follows the currency symbol. *)
SignAfterSymbol ==
    formatted # <<>> =>
        IF value >= 0 THEN WellFormedAmount(formatted)
        ELSE /\ formatted[1] = "$"
             /\ formatted[2] = "-"
             /\ WellFormedAmount(<<"$">> \o SubSeq(formatted, 3, Len(formatted)))

(* The whitespace tokens of a text, stated by position: a token starts at *)
(* a non-whitespace character that is first or follows whitespace, and    *)
(* runs up to the next whitespace or the end.                             *)
TokenStarts(t) ==
    {i \in 1..Len(t) : t[i] \notin Whitespace /\ (i = 1 \/ t[i - 1] \in Whitespace)}

TokenCount(t) == Cardinality(TokenStarts(t))

Token(t, k) ==
    LET start == CHOOSE i \in TokenStarts(t) :
                    Cardinality({j \in TokenStarts(t) : j <= i}) = k
        stop  == CHOOSE e \in start..Len(t) :
                    /\ \A j \in start..e : t[j] \notin Whitespace
                    /\ e = Len(t) \/ t[e + 1] \in Whitespace
    IN  SubSeq(t, start, stop)

(* C10: the county is whitespace token 1 (the second) of the display name *)
(* when it has at least 2 tokens and "Unknown" otherwise; the grantor is  *)
(* token 2 when it has at least 3 tokens and "Unknown" otherwise; an      *)
(* absent display name gives "Unknown" for both.                          *)
C10_CountyGrantor ==
    county # <<>> =>
        IF display_name.isna THEN county = Unknown /\ grantor = Unknown
        ELSE LET t == display_name.text
             IN  /\ county = IF TokenCount(t) >= 2 THEN Token(t, 2) ELSE Unknown
                 /\ grantor = IF TokenCount(t) >= 3 THEN Token(t, 3) ELSE Unknown
                 /\ TokenCount(t) = 2 => (county # Unknown /\ grantor = Unknown)

C10_Witness ==
    /\ county # <<>>
    /\ ~display_name.isna
    /\ TokenCount(display_name.text) = 2
    /\ Len(display_name.text) = MaxNameLen
    /\ county = Token(display_name.text, 2)
    /\ Len(county) = 2
    /\ grantor = Unknown

(* A csv field as a reader sees it: without the quotes put around it. *)
Unquoted(t) ==
    IF Len(t) >= 2 /\ t[1] = Quote /\ t[Len(t)] = Quote
    THEN SubSeq(t, 2, Len(t) - 1)
    ELSE t

TotalsLabels ==
    {<<"S", "U", "B", "T", "O", "T", "A", "L">>,
     <<"P", "R", "I", "O", "R", " ", "A", "D", "J", "U", "S", "T", "M", "E", "N", "T">>,
     <<"T", "O", "T", "A", "L">>}

(* C11: the delimited text is one header row with the ten columns in the *)
(* fixed order, then exactly one row per BonusRow with the five currency *)
(* fields as formatted strings, and no SUBTOTAL, PRIOR ADJUSTMENT or     *)
(* TOTAL row.                                                            *)
C11_CsvRows ==
    "csv" \in defined =>
        /\ csv.header =
              <<"Funding Date", "State", "County", "Grantor", "APN",
                "Gross Sales Price", "Closing Costs", "Cash to Seller",
                "Asset Cost", "Gross Profit">>
        /\ Len(BonusRows) > 0
        /\ Len(csv.lines) = Len(BonusRows)
        /\ \A k \in 1..Len(csv.lines) :
              LET line == csv.lines[k]
                  row  == BonusRows[k]
              IN  /\ Len(line) = 10
                  /\ Unquoted(line[1]) = row.funding_date
                  /\ Unquoted(line[2]) = row.state
                  /\ Unquoted(line[3]) = row.county
                  /\ Unquoted(line[4]) = row.grantor
                  /\ Unquoted(line[5]) = row.apn
                  /\ Unquoted(line[6]) = format_currency(row.gross_sales_price)
                  /\ Unquoted(line[7]) = format_currency(row.closing_costs)
                  /\ Unquoted(line[8]) = format_currency(row.cash_to_seller)
                  /\ Unquoted(line[9]) = format_currency(row.asset_cost)
                  /\ Unquoted(line[10]) = format_currency(row.gross_profit)
                  /\ \A c \in 1..Len(line) : Unquoted(line[c]) \notin TotalsLabels

C11_Witness ==
    /\ pc = "done"
    /\ Len(csv.lines) = 2
    /\ csv.lines[1][10] # csv.lines[2][10]
    /\ csv.lines[1][10][1] = Quote
    /\ \E k \in 1..2 : csv.lines[k][3] = Unknown

TableRows(n) == 3..(n + 3)

TableCells(n) == (1..10) \X TableRows(n)

(* The table is intact: the header in row 3, data row k in row 3 + k. *)
TableIntact(sheet, frame) ==
    /\ TableCells(Len(frame.rows)) \subseteq DOMAIN sheet
    /\ \A c \in 1..10 :
          /\ sheet[<<c, 3>>] = HeaderCell(Columns[c])
          /\ \A k \in 1..Len(frame.rows) :
                sheet[<<c, 3 + k>>] = DataCell(RowCells(frame.rows[k])[c])

(* The three totals rows start at row first. *)
TotalsAt(sheet, first) ==
    /\ {<<9, first>>, <<10, first>>, <<9, first + 1>>, <<10, first + 1>>,
        <<9, first + 2>>, <<10, first + 2>>} \subseteq DOMAIN sheet
    /\ sheet[<<9, first>>] = TextCell("SUBTOTAL")
    /\ sheet[<<10, first>>] = ValueCell(format_currency(subtotal))
    /\ sheet[<<9, first + 1>>] = TextCell("PRIOR ADJUSTMENT")
    /\ sheet[<<10, first + 1>>] = ValueCell(format_currency(prior_adjustment))
    /\ sheet[<<9, first + 2>>] = TextCell("TOTAL")
    /\ sheet[<<10, first + 2>>] = ValueCell(format_currency(total))

TitleLines(sheet) ==
    /\ {<<1, 1>>, <<1, 2>>} \subseteq DOMAIN sheet
    /\ sheet[<<1, 1>>].kind = "text"
    /\ sheet[<<1, 2>>] = PeriodCell(LongDate(month_ending))

(* C13 as stated: title in row 1, period line in row 2, the table below,  *)
(* and the three totals rows starting two rows below the last data row,   *)
(* never on a header or data row.                                         *)
C13_AsStated ==
    "excel_data" \in defined =>
        LET n == Len(display_df.rows)
        IN  /\ TitleLines(excel_data)
            /\ TableIntact(excel_data, display_df)
            /\ TotalsAt(excel_data, (n + 3) + 2)

(* C13 amended: the three totals rows start in the row directly below the *)
(* last data row (row n + 4, the last data row being row n + 3).          *)
C13_ExcelLayout ==
    "excel_data" \in defined =>
        LET n == Len(display_df.rows)
        IN  /\ n > 0
            /\ TitleLines(excel_data)
            /\ TableIntact(excel_data, display_df)
            /\ TotalsAt(excel_data, (n + 3) + 1)
            /\ DOMAIN excel_data =
                  TableCells(n) \cup {<<1, 1>>, <<1, 2>>}
                  \cup ({9, 10} \X ((n + 4)..(n + 6)))
            /\ ({9, 10} \X ((n + 4)..(n + 6))) \cap TableCells(n) = {}

C13_Witness ==
    /\ pc = "done"
    /\ Len(display_df.rows) = 2
    /\ excel_data[<<10, 5>>] = DataCell(format_currency(BonusRows[2].gross_profit))
    /\ excel_data[<<9, 6>>] = TextCell("SUBTOTAL")
    /\ excel_data[<<10, 8>>] = ValueCell(format_currency(total))
    /\ total # subtotal

(* The name cells of the grid read row by row, left pair before right. *)
NamesRead(grid) ==
    [j \in 1..(2 * Len(grid)) |-> grid[(j + 1) \div 2][IF j % 2 = 1 THEN 1 ELSE 4]]

LinesRead(grid) ==
    [j \in 1..(2 * Len(grid)) |-> grid[(j + 1) \div 2][IF j % 2 = 1 THEN 2 ELSE 5]]

IsSignatureLine(t) == Len(t) = 35 /\ \A k \in 1..Len(t) : t[k] = "_"

(* C12: for n >= 1 names the signature grid has ceil(n/2) rows; row i     *)
(* holds the (name, underscore line) pair of member 2i, then the pair of  *)
(* member 2i+1, in input order, every member once, and for odd n the      *)
(* second pair of the last row is two blank cells.                        *)
C12_SignatureGrid ==
    (pdf_data = "buffer" /\ Len(team_members) >= 1) =>
        LET n == Len(team_members)
        IN  /\ 2 * Len(sig_data) >= n
            /\ 2 * (Len(sig_data) - 1) < n
            /\ \A r \in 1..Len(sig_data) : Len(sig_data[r]) = 5
            /\ SubSeq(NamesRead(sig_data), 1, n) = team_members
            /\ \A j \in 1..n : IsSignatureLine(LinesRead(sig_data)[j])
            /\ \A j \in (n + 1)..(2 * Len(sig_data)) :
                  /\ NamesRead(sig_data)[j] = <<>>
                  /\ LinesRead(sig_data)[j] = <<>>
            /\ n % 2 = 1 =>
                  /\ sig_data[Len(sig_data)][1] = team_members[n]
                  /\ sig_data[Len(sig_data)][4] = <<>>
                  /\ sig_data[Len(sig_data)][5] = <<>>

C12_Witness ==
    /\ pdf_data = "buffer"
    /\ Len(team_members) = 3
    /\ Len(sig_data) = 2
    /\ sig_data[1][1] = team_members[1]
    /\ sig_data[1][4] = team_members[2]
    /\ sig_data[2][1] = team_members[3]
    /\ sig_data[2][4] = <<>>
    /\ team_members[1] # team_members[2]

(* One BonusRow per kept row, in input order, each computed from its own *)
(* raw row and the fixed addend alone.                                   *)
OneRowPerKeptRow ==
    /\ \A k \in 1..Len(df_filtered) : df_filtered[k] \in 1..Len(df)
    /\ \A j, k \in 1..Len(df_filtered) : j < k => df_filtered[j] < df_filtered[k]
    /\ Len(BonusRows) = Len(df_filtered)
    /\ \A k \in 1..Len(BonusRows) : BonusRows[k] = BonusRow(df[df_filtered[k]], mls_cost)

(* C14: process_close_export emits exactly one BonusRow per raw row that  *)
(* passes the period filter, in the input's relative order, none for a    *)
(* filtered-out row, and a row's output depends only on that row's own    *)
(* fields and the fixed addend, not on the other rows of the input.       *)
C14_OneRowPerKeptRow == Returned => OneRowPerKeptRow

(* The part of C14 the code has: it holds of every call that returns. *)
RowsOfReturningCall == (Returned /\ pc \notin {"raised", "error"}) => OneRowPerKeptRow

(* A kept row that would be emitted alone is lost to another row's field. *)
RowLostToAnotherRow ==
    /\ pc = "error"
    /\ Len(df_filtered) = 2
    /\ ~RowRaises(df[df_filtered[1]])
    /\ RowRaises(df[df_filtered[2]])
    /\ Len(BonusRows) = 0

====
